---- MODULE Spec2Model ----
(***************************************************************************)
(* A state-machine model of WiFiHeatmapApp (src/Wifi-heatmap.py): the      *)
(* session state of the window, the calibration dialogue, the three-pass   *)
(* scan at a clicked location with its processEvents re-entrancy points,  *)
(* and the measurement list.                                               *)
(*                                                                         *)
(* Numbers.  Signal strengths are whole dBm.  Watts are fixed-point: the   *)
(* table WattTable holds 1000 * 10^(k/10) rounded, k = dBm - MinDbm, so    *)
(* the conversion dBm -> watts -> dBm is computed, not assumed.  Lengths   *)
(* entered in dialogs (decimals=1) are held in tenths of a metre.          *)
(* pixels_per_meter is the exact fraction <<10 * pixel_distance, tenths>>. *)
(*                                                                         *)
(* Modal dialogs (QMessageBox, QInputDialog, QFileDialog) block input to   *)
(* the main window, so a handler that shows one is a single action whose   *)
(* dialog answer is an input.  QApplication.processEvents() inside         *)
(* perform_scan is not modal: handlers may run there, nested in the scan.  *)
(* The drawing state (scene, self.points, button captions) is left out.    *)
(*                                                                         *)
(* Heatmaps.  The lattice sizes of plot_heatmap are computed; the field    *)
(* scipy's Rbf returns is an input, held at the first MaxField lattice     *)
(* points.  An exception that leaves generate_heatmap is recorded as the   *)
(* outcome "raised" and the window is taken to go on.                      *)
(***************************************************************************)
EXTENDS Integers, Sequences, FiniteSets, TLC

\* ---------------------------------------------------------------- bounds
MaxCoord == 1
MaxLevel == 1
MaxAps == 1
MaxScans == 2
MaxLoads == 2
MaxDepth == 2
MaxCalPoints == 3
NumMapFiles == 1
NumIfaces == 1
MaxField == 2
MaxReadings == 3
MaxClicks == 3

\* ------------------------------------------------------------- constants
NumPasses == 3
DefaultRadius == 5
MinRadius10 == 10
MinDistance10 == 1
DefaultDistance10 == 100
MinDbm == 0 - 60

NoMap == 0          \* map_image_path = None
NoInterface == 0    \* interface = None
NoScale == <<>>     \* pixels_per_meter = None

RawSsids == {"A", ""}                 \* result.ssid as the interface reports it
Ssids == {"A", "<Hidden SSID>"}
Points == {<<3 * k, 4 * k>> : k \in 0..MaxCoord}
Dbms == {MinDbm + 10 * l : l \in 0..MaxLevel}
MapFiles == 1..NumMapFiles
Ifaces == 1..NumIfaces
Buttons == {"Left", "Right"}
RadiusChoices == {MinRadius10, DefaultRadius * 10}
DistanceChoices == {MinDistance10, DefaultDistance10}
\* Values rbf(X, Y) may return at a lattice point (line 306).
FieldValues == {MinDbm, 1}

\* ------------------------------------------------------- pure functions

\* 1000 * 10^(k/10), rounded, for k = 0..30 (index k + 1).
WattTable ==
    << 1000, 1259, 1585, 1995, 2512, 3162, 3981, 5012, 6310, 7943,
       10000, 12589, 15849, 19953, 25119, 31623, 39811, 50119, 63096, 79433,
       100000, 125893, 158489, 199526, 251189, 316228, 398107, 501187,
       630957, 794328, 1000000 >>

\* signal_watts = math.pow(10, signal_strength / 10) / 1000
Watts(dbm) == WattTable[dbm - MinDbm + 1]

\* 10 * math.log10(w * 1000) for w = total / n, to the whole dB below.
DbmOf(total, n) ==
    LET ks == {k \in 0..(Len(WattTable) - 1) : WattTable[k + 1] * n <= total}
    IN  MinDbm + (CHOOSE k \in ks : \A j \in ks : j <= k)

RECURSIVE SumSeq(_)
SumSeq(s) == IF s = <<>> THEN 0 ELSE Head(s) + SumSeq(Tail(s))

MaxSeq(s) == CHOOSE v \in {s[i] : i \in DOMAIN s} : \A i \in DOMAIN s : s[i] <= v

\* A Python dict: the list of its <<key, value>> items in insertion order.
DictKeys(d) == {d[i][1] : i \in DOMAIN d}
DictGet(d, k) == d[CHOOSE i \in DOMAIN d : d[i][1] = k][2]
DictGetOr(d, k, default) == IF k \in DictKeys(d) THEN DictGet(d, k) ELSE default
DictPut(d, k, v) ==
    IF k \in DictKeys(d)
    THEN [i \in DOMAIN d |-> IF d[i][1] = k THEN <<k, v>> ELSE d[i]]
    ELSE Append(d, <<k, v>>)

\* One reading of the loop over access_points (lines 215-223).
PassStep(ssid_signals, ssid_signals_scan, ap) ==
    LET ssid == ap[1]
        signal_watts == Watts(ap[2])
        d1 == IF ssid \notin DictKeys(ssid_signals_scan)
              THEN DictPut(ssid_signals_scan, ssid, <<>>)
              ELSE ssid_signals_scan
        keep == IF ssid \notin DictKeys(ssid_signals)
                THEN TRUE
                ELSE signal_watts > MaxSeq(DictGet(d1, ssid))
    IN  IF keep THEN DictPut(d1, ssid, <<signal_watts>>) ELSE d1

\* The loop over access_points of one pass, from an empty ssid_signals_scan.
RECURSIVE PassLoop(_, _, _)
PassLoop(ssid_signals, ssid_signals_scan, access_points) ==
    IF access_points = <<>>
    THEN ssid_signals_scan
    ELSE PassLoop(ssid_signals,
                  PassStep(ssid_signals, ssid_signals_scan, Head(access_points)),
                  Tail(access_points))

\* mergeDictionary: every key of either dict, with the two lists
\* concatenated.  The order of the result's keys (a set's) is not used.
RECURSIVE MergeNew(_, _, _)
MergeNew(acc, dict1, dict2) ==
    IF dict2 = <<>>
    THEN acc
    ELSE LET k == Head(dict2)[1]
         IN  MergeNew(IF k \in DictKeys(dict1)
                      THEN acc
                      ELSE Append(acc, <<k, Head(dict2)[2]>>),
                      dict1, Tail(dict2))

mergeDictionary(dict1, dict2) ==
    MergeNew([i \in DOMAIN dict1 |->
                 <<dict1[i][1], dict1[i][2] \o DictGetOr(dict2, dict1[i][1], <<>>)>>],
             dict1, dict2)

\* averaged_signals (lines 228-230): one dBm value per key of the dict
\* it is given, keys with an empty list left out.
RECURSIVE averaged_signals_of(_)
averaged_signals_of(d) ==
    IF d = <<>>
    THEN <<>>
    ELSE LET signals == Head(d)[2]
             rest == averaged_signals_of(Tail(d))
         IN  IF signals = <<>>
             THEN rest
             ELSE <<<<Head(d)[1], DbmOf(SumSeq(signals), Len(signals))>>>> \o rest

\* list.remove(m): drops the first element equal to m.
RemoveFirst(list, m) ==
    LET i == CHOOSE j \in DOMAIN list :
                 list[j] = m /\ \A h \in DOMAIN list : list[h] = m => j <= h
    IN  SubSeq(list, 1, i - 1) \o SubSeq(list, i + 1, Len(list))

\* next((m for m in self.measurements if key matches), None): the first
\* match as a one-element list, the empty list for None.
ExistingMeasurement(list, x, y, ssid) ==
    LET hits == {j \in DOMAIN list :
                    list[j][1] = x /\ list[j][2] = y /\ list[j][3] = ssid}
    IN  IF hits = {} THEN <<>>
        ELSE <<list[CHOOSE j \in hits : \A h \in hits : j <= h]>>

\* Upsert without the search for an existing measurement.
Upsert_AlwaysAppends(list, x, y, ssid, avg_signal_strength) ==
    Append(list, <<x, y, ssid, avg_signal_strength>>)

\* Upsert without the comparison of line 237.
Upsert_ReplacesAlways(list, x, y, ssid, avg_signal_strength) ==
    LET existing_measurement == ExistingMeasurement(list, x, y, ssid)
    IN  IF existing_measurement # <<>>
        THEN Append(RemoveFirst(list, existing_measurement[1]),
                    <<x, y, ssid, avg_signal_strength>>)
        ELSE Append(list, <<x, y, ssid, avg_signal_strength>>)

\* Upsert with the remove of line 238 done before the comparison.
Upsert_RemovesWeaker(list, x, y, ssid, avg_signal_strength) ==
    LET existing_measurement == ExistingMeasurement(list, x, y, ssid)
    IN  IF existing_measurement # <<>>
        THEN IF avg_signal_strength > existing_measurement[1][4]
             THEN Append(RemoveFirst(list, existing_measurement[1]),
                         <<x, y, ssid, avg_signal_strength>>)
             ELSE RemoveFirst(list, existing_measurement[1])
        ELSE Append(list, <<x, y, ssid, avg_signal_strength>>)

\* Lines 235-241 for one (ssid, avg_signal_strength).
Upsert(list, x, y, ssid, avg_signal_strength) ==
    LET existing_measurement == ExistingMeasurement(list, x, y, ssid)
    IN  IF existing_measurement # <<>>
        THEN IF avg_signal_strength > existing_measurement[1][4]
             THEN Append(RemoveFirst(list, existing_measurement[1]),
                         <<x, y, ssid, avg_signal_strength>>)
             ELSE list
        ELSE Append(list, <<x, y, ssid, avg_signal_strength>>)

\* The loop of lines 233-241 over averaged_signals.items().
RECURSIVE UpsertAll(_, _, _, _)
UpsertAll(list, x, y, averaged) ==
    IF averaged = <<>>
    THEN list
    ELSE UpsertAll(Upsert(list, x, y, Head(averaged)[1], Head(averaged)[2]),
                   x, y, Tail(averaged))

\* np.sqrt of the squared pixel distance (exact on the points used).
ISqrt(n) == CHOOSE r \in 0..n : r * r <= n /\ n < (r + 1) * (r + 1)

PixelDistance(p1, p2) ==
    ISqrt((p2[1] - p1[1]) * (p2[1] - p1[1]) + (p2[2] - p1[2]) * (p2[2] - p1[2]))

\* pixel_distance / distance_meters, distance_meters = distance10 / 10.
PixelsPerMeter(points, distance10) ==
    <<10 * PixelDistance(points[1], points[2]), distance10>>

\* ssid_choices offering every known name, stored or not.
ssid_choices_AllNames(list) == Ssids

\* ssid_choices (line 269): the names held by the measurement list.
ssid_choices_of(list) == {list[j][3] : j \in DOMAIN list}

\* filtered_measurements (lines 279-284): per (x, y) the strongest stored
\* value of the chosen ssid, in the order the positions are first met.
RECURSIVE filtered_measurements_of(_, _, _)
filtered_measurements_of(filtered, list, ssid) ==
    IF list = <<>>
    THEN filtered
    ELSE LET m == Head(list)
             key == <<m[1], m[2]>>
             put == /\ m[3] = ssid
                    /\ IF key \notin DictKeys(filtered)
                       THEN TRUE
                       ELSE m[4] > DictGet(filtered, key)
         IN  filtered_measurements_of(
                 IF put THEN DictPut(filtered, key, m[4]) ELSE filtered,
                 Tail(list), ssid)

\* img.size of the map image (line 295).
ImageSize(path) == <<800 * path, 600 * path>>

\* grid_step = measurement_radius * pixels_per_meter (line 298), as the
\* exact fraction <<numerator, denominator>>; the radius is in tenths.
GridStep(radius10, ppm) == <<radius10 * ppm[1], 10 * ppm[2]>>

\* len(np.arange(0, stop, step)) for a step above zero: ceil(stop / step).
ArangeLen(stop, step) == (stop * step[2] + step[1] - 1) \div step[1]

\* What generate_heatmap did: outcome is "none" (not the last handler),
\* "no_ssids" (lines 272-274), "cancelled" (line 278 false), "raised"
\* (np.arange with a zero step, lines 299-300) or "plotted"; samples are the
\* items handed to plot_heatmap and Rbf; cols and rows are len(x_grid) and
\* len(y_grid).
\* Z_raw is rbf(X, Y) and Z the array handed to imshow, both at the first
\* MaxField lattice points.
NoHeatmap ==
    [outcome |-> "none", ssid |-> "", samples |-> <<>>, cols |-> 0, rows |-> 0,
     Z_raw |-> <<>>, Z |-> <<>>]

\* The fields rbf(X, Y) may return (line 306): scipy's interpolant is not
\* computed, any value at any lattice point is allowed for.
RbfFields == [1..MaxField -> FieldValues]

\* Z = -Z with the magnitude negated instead of the value.
Negate_Magnitude(Z) == [i \in DOMAIN Z |-> IF Z[i] < 0 THEN Z[i] ELSE 0 - Z[i]]

\* Z = -Z (line 309).
Negate(Z) == [i \in DOMAIN Z |-> 0 - Z[i]]

\* plot_heatmap (lines 294-309); raw is what rbf(X, Y) returns.
PlotHeatmap(path, radius10, ppm, samples, ssid, raw) ==
    LET size == ImageSize(path)
        grid_step == GridStep(radius10, ppm)
    IN  IF grid_step[1] = 0
        THEN [NoHeatmap EXCEPT !.outcome = "raised", !.ssid = ssid,
                               !.samples = samples]
        ELSE [outcome |-> "plotted", ssid |-> ssid, samples |-> samples,
              cols |-> ArangeLen(size[1], grid_step),
              rows |-> ArangeLen(size[2], grid_step),
              Z_raw |-> raw, Z |-> Negate(raw)]

VARIABLES
    map_image_path,      \* NoMap or a map file
    measurements,        \* list of <<x, y, ssid, signal_strength>>
    interface,           \* NoInterface or the selected interface
    enabled_scans,
    calibration_points,  \* list of <<x, y>>
    pixels_per_meter,    \* NoScale or <<10 * pixel_distance, distance in tenths>>
    measurement_radius,  \* tenths of a metre
    is_calibrating,
    scan_button_enabled,
    set_radius_enabled,
    generate_enabled,
    stack,               \* the perform_scan calls in progress, innermost last
    ifaceStatus,         \* per interface: "idle" or "scanning"
    lastOp,              \* history: what ran last: "load_map", "scan_no_interface",
                         \* "scan_complete", another "handler", another "step"
    confirmed,           \* history: a distance was confirmed for the loaded map
    upserted,            \* history: per key, the values upserted so far
    nScans,              \* history: the scans started
    nLoads,              \* history: the maps loaded
    heatmap              \* what generate_heatmap did, while it is the last handler run

vars == <<map_image_path, measurements, interface, enabled_scans,
          calibration_points, pixels_per_meter, measurement_radius,
          is_calibrating, scan_button_enabled, set_radius_enabled,
          generate_enabled, stack, ifaceStatus, lastOp, confirmed, upserted,
          nScans, nLoads, heatmap>>

session == <<map_image_path, calibration_points, pixels_per_meter,
             is_calibrating, confirmed>>
buttons == <<scan_button_enabled, set_radius_enabled, generate_enabled>>
counters == <<nScans, nLoads>>

Keys == Points \X Ssids

Top == stack[Len(stack)]
SetTop(frame) == [stack EXCEPT ![Len(stack)] = frame]
Pop == SubSeq(stack, 1, Len(stack) - 1)

\* A handler can be dispatched by the event loop when no scan is running,
\* or from a QApplication.processEvents() call of the running scan.
CanDispatch ==
    IF stack = <<>>
    THEN TRUE
    ELSE Top.pc \in {"processEvents204", "processEvents210"}

Scanning ==
    IF interface = NoInterface THEN FALSE ELSE ifaceStatus[interface] = "scanning"

\* What every handler and step other than generate_heatmap leaves behind.
Did(op) ==
    /\ lastOp' = op
    /\ heatmap' = NoHeatmap

Init ==
    /\ map_image_path = NoMap
    /\ measurements = <<>>
    /\ interface = NoInterface
    /\ enabled_scans = FALSE
    /\ calibration_points = <<>>
    /\ pixels_per_meter = NoScale
    /\ measurement_radius = DefaultRadius * 10
    /\ is_calibrating = FALSE
    /\ scan_button_enabled = FALSE
    /\ set_radius_enabled = FALSE
    /\ generate_enabled = FALSE
    /\ stack = <<>>
    /\ ifaceStatus = [f \in Ifaces |-> "idle"]
    /\ lastOp = "init"
    /\ heatmap = NoHeatmap
    /\ confirmed = FALSE
    /\ upserted = [k \in Keys |-> <<>>]
    /\ nScans = 0
    /\ nLoads = 0

\* ------------------------------------------------------------- handlers

\* select_interface: choice is the interface picked, NoInterface when no
\* interface was found or the dialog was cancelled.
SelectInterface(choice) ==
    /\ CanDispatch
    /\ interface' = IF choice # NoInterface THEN choice ELSE interface
    /\ Did("handler")
    /\ UNCHANGED <<session, buttons, measurements, enabled_scans,
                   measurement_radius, stack, ifaceStatus, upserted, counters>>

\* start_calibration
StartCalibration ==
    /\ is_calibrating' = TRUE
    /\ calibration_points' = <<>>

\* load_map: file_path is NoMap when the file dialog was cancelled.
\* display_map resets only the drawn points.
LoadMap(file_path) ==
    /\ CanDispatch
    /\ IF file_path # NoMap
       THEN /\ nLoads < MaxLoads
            /\ map_image_path' = file_path
            /\ StartCalibration
            /\ confirmed' = FALSE
            /\ nLoads' = nLoads + 1
            /\ Did("load_map")
       ELSE /\ UNCHANGED <<map_image_path, is_calibrating, calibration_points,
                           confirmed, nLoads>>
            /\ Did("handler")
    /\ UNCHANGED <<pixels_per_meter, measurements, interface, enabled_scans,
                   measurement_radius, buttons, stack, ifaceStatus, upserted,
                   nScans>>

\* set_measurement_radius, behind the button enabled by calibration.
SetMeasurementRadius(ok, radius) ==
    /\ CanDispatch
    /\ set_radius_enabled
    /\ measurement_radius' = IF ok THEN radius ELSE measurement_radius
    /\ Did("handler")
    /\ UNCHANGED <<session, buttons, measurements, interface, enabled_scans,
                   stack, ifaceStatus, upserted, counters>>

\* calculate_pixels_per_meter: the new pixels_per_meter.
CalculatePixelsPerMeter(points, distance10) ==
    IF Len(points) = 2
    THEN PixelsPerMeter(points, distance10)
    ELSE pixels_per_meter

\* The branch of handle_calibration_click that ends calibration (lines 162
\* and 174): the click made the second point and the distance was confirmed.
CalibrationCompletes(points, ok) == Len(points) = 2 /\ ok

\* Whether at most n more clicks, with some dialog answers, end a
\* calibration that has recorded points.
RECURSIVE CanCompleteWithin(_, _)
CanCompleteWithin(points, n) ==
    /\ n > 0
    /\ \E pos \in Points :
           LET after == Append(points, pos)
           IN  \/ \E ok \in BOOLEAN : CalibrationCompletes(after, ok)
               \/ CanCompleteWithin(after, n - 1)

\* handle_calibration_click, with the distance dialog's answer (ok, distance10).
HandleCalibrationClick(pos, ok, distance10) ==
    LET points == Append(calibration_points, pos)
    IN  /\ Len(calibration_points) < MaxCalPoints
        /\ calibration_points' = points
        /\ IF CalibrationCompletes(points, ok)
           THEN /\ pixels_per_meter' = CalculatePixelsPerMeter(points, distance10)
                /\ is_calibrating' = FALSE
                /\ enabled_scans' = TRUE
                /\ scan_button_enabled' = TRUE
                /\ set_radius_enabled' = TRUE
                /\ confirmed' = TRUE
           ELSE UNCHANGED <<pixels_per_meter, is_calibrating, enabled_scans,
                            scan_button_enabled, set_radius_enabled, confirmed>>
        /\ Did("handler")
        /\ UNCHANGED <<map_image_path, measurements, interface,
                       measurement_radius, generate_enabled, stack,
                       ifaceStatus, upserted, counters>>

NewFrame(pos) ==
    [pos |-> pos, i |-> 0, pc |-> "processEvents204",
     ssid_signals |-> <<>>, access_points |-> <<>>,
     ssid_signals_scan |-> <<>>, averaged_signals |-> <<>>, seen |-> [ssid \in Ssids |-> <<0, 0>>]]

\* The early return placed after line 203 instead of before line 201.
PerformScanNoInterface_DisablesScans(pos) ==
    /\ Did("scan_no_interface")
    /\ enabled_scans' = FALSE
    /\ scan_button_enabled' = FALSE
    /\ UNCHANGED <<session, set_radius_enabled, generate_enabled, measurements,
                   interface, measurement_radius, stack, ifaceStatus, upserted,
                   counters>>

\* perform_scan, lines 197-199: no interface selected.
PerformScanNoInterface(pos) ==
    /\ Did("scan_no_interface")
    /\ UNCHANGED <<session, buttons, measurements, interface, enabled_scans,
                   measurement_radius, stack, ifaceStatus, upserted, counters>>

\* perform_scan, lines 201-204: up to the first processEvents.
PerformScanBegin(pos) ==
    /\ Len(stack) < MaxDepth
    /\ nScans < MaxScans
    /\ nScans' = nScans + 1
    /\ enabled_scans' = FALSE
    /\ scan_button_enabled' = FALSE
    /\ stack' = Append(stack, NewFrame(pos))
    /\ Did("step")
    /\ UNCHANGED <<session, set_radius_enabled, generate_enabled, measurements,
                   interface, measurement_radius, ifaceStatus, upserted,
                   nLoads>>

PerformScan(pos) ==
    IF interface = NoInterface
    THEN PerformScanNoInterface(pos)
    ELSE PerformScanBegin(pos)

\* record_click
RecordClick(pos, button, ok, distance10) ==
    /\ CanDispatch
    /\ IF map_image_path = NoMap
       THEN /\ Did("handler")
            /\ UNCHANGED <<session, buttons, measurements, interface,
                           enabled_scans, measurement_radius, stack,
                           ifaceStatus, upserted, counters>>
       ELSE IF is_calibrating
            THEN HandleCalibrationClick(pos, ok, distance10)
            ELSE IF button = "Left" /\ enabled_scans
                 THEN PerformScan(pos)
                 ELSE /\ Did("handler")
                      /\ UNCHANGED <<session, buttons, measurements, interface,
                                     enabled_scans, measurement_radius, stack,
                                     ifaceStatus, upserted, counters>>

\* toggle_scan, behind the scan button.
ToggleScan ==
    /\ CanDispatch
    /\ scan_button_enabled
    /\ enabled_scans' = ~enabled_scans
    /\ Did("handler")
    /\ UNCHANGED <<session, buttons, measurements, interface,
                   measurement_radius, stack, ifaceStatus, upserted, counters>>

\* generate_heatmap, behind the button enabled by the first finished scan.
\* ssid and ok are the answer of QInputDialog.getItem over ssid_choices.
GenerateHeatmap(ssid, ok) ==
    /\ CanDispatch
    /\ generate_enabled
    /\ LET ssid_choices == ssid_choices_of(measurements)
       IN  IF ssid_choices = {}
           THEN heatmap' = [NoHeatmap EXCEPT !.outcome = "no_ssids"]
           ELSE /\ ssid \in ssid_choices
                /\ IF ok
                   THEN \E raw \in RbfFields :
                            heatmap' =
                                PlotHeatmap(map_image_path, measurement_radius,
                                            pixels_per_meter,
                                            filtered_measurements_of(<<>>, measurements, ssid),
                                            ssid, raw)
                   ELSE heatmap' = [NoHeatmap EXCEPT !.outcome = "cancelled"]
    /\ lastOp' = "handler"
    /\ UNCHANGED <<session, buttons, measurements, interface, enabled_scans,
                   measurement_radius, stack, ifaceStatus, upserted, counters>>

\* ------------------------------------------------- the steps of a scan

\* QApplication.processEvents() returns (lines 204 and 210).
ProcessEventsReturn ==
    /\ stack # <<>>
    /\ \/ /\ Top.pc = "processEvents204"
          /\ stack' = SetTop([Top EXCEPT !.pc = "processEvents210"])
       \/ /\ Top.pc = "processEvents210"
          /\ stack' = SetTop([Top EXCEPT !.pc = "wait212"])
    /\ Did("step")
    /\ UNCHANGED <<session, buttons, measurements, interface, enabled_scans,
                   measurement_radius, ifaceStatus, upserted, counters>>

\* wait_while_interface_scanning (line 212) ends, then interface.scan()
\* (line 257).
TriggerScan ==
    /\ stack # <<>>
    /\ Top.pc = "wait212"
    /\ ~Scanning
    /\ ifaceStatus' = [ifaceStatus EXCEPT ![interface] = "scanning"]
    /\ stack' = SetTop([Top EXCEPT !.pc = "wait258"])
    /\ Did("step")
    /\ UNCHANGED <<session, buttons, measurements, interface, enabled_scans,
                   measurement_radius, upserted, counters>>

\* scan_access_points, lines 259-266: the empty name becomes the sentinel.
ScanAccessPoints(results) ==
    [j \in DOMAIN results |->
        <<IF results[j][1] # "" THEN results[j][1] ELSE "<Hidden SSID>",
          results[j][2]>>]

\* history: per network name, <<the total of its per-pass watt values, the
\* number of passes it appeared in>>, over the passes so far.
NoteSeen(seen, scan) ==
    [ssid \in Ssids |->
        LET signals == DictGetOr(scan, ssid, <<>>)
        IN  <<seen[ssid][1] + SumSeq(signals), seen[ssid][2] + Len(signals)>>]

\* Line 225: the dict mergeDictionary returns is dropped, so ssid_signals
\* stays as it was.
MergeIntoSsidSignals(ssid_signals, ssid_signals_scan) ==
    LET merged_dict == mergeDictionary(ssid_signals, ssid_signals_scan)
    IN  ssid_signals

\* The rest of one pass: the wait of line 258 ends, scan_results() is
\* read, lines 215-225 run.
CollectPass(results) ==
    /\ stack # <<>>
    /\ Top.pc = "wait258"
    /\ ~Scanning
    /\ LET access_points == ScanAccessPoints(results)
           scan == PassLoop(Top.ssid_signals, <<>>, access_points)
           last == Top.i + 1 = NumPasses
       IN  stack' = SetTop([Top EXCEPT
                !.i = Top.i + 1,
                !.ssid_signals = MergeIntoSsidSignals(Top.ssid_signals, scan),
                !.seen = NoteSeen(Top.seen, scan),
                !.access_points = IF last THEN access_points ELSE <<>>,
                !.ssid_signals_scan = IF last THEN scan ELSE <<>>,
                !.pc = IF last THEN "aggregate" ELSE "processEvents210"])
    /\ Did("step")
    /\ UNCHANGED <<session, buttons, measurements, interface, enabled_scans,
                   measurement_radius, ifaceStatus, upserted, counters>>

\* history: per key, the values upserted so far, in order.
RECURSIVE NoteUpserts(_, _, _)
NoteUpserts(u, pos, averaged) ==
    IF averaged = <<>>
    THEN u
    ELSE LET k == <<pos, Head(averaged)[1]>>
         IN  NoteUpserts([u EXCEPT ![k] = Append(u[k], Head(averaged)[2])],
                         pos, Tail(averaged))

\* Lines 228-241: the averages, then the update of self.measurements.
CompleteScan ==
    /\ stack # <<>>
    /\ Top.pc = "aggregate"
    /\ LET averaged_signals == averaged_signals_of(Top.ssid_signals_scan)
       IN  /\ measurements' = UpsertAll(measurements, Top.pos[1], Top.pos[2],
                                        averaged_signals)
           /\ upserted' = NoteUpserts(upserted, Top.pos, averaged_signals)
           /\ stack' = SetTop([Top EXCEPT !.averaged_signals = averaged_signals,
                                          !.pc = "wait243"])
    /\ Did("scan_complete")
    /\ UNCHANGED <<session, buttons, interface, enabled_scans,
                   measurement_radius, ifaceStatus, counters>>

\* Lines 243-249: the last wait ends and scanning is switched back on.
FinishScan ==
    /\ stack # <<>>
    /\ Top.pc = "wait243"
    /\ ~Scanning
    /\ enabled_scans' = TRUE
    /\ scan_button_enabled' = TRUE
    /\ generate_enabled' = TRUE
    /\ stack' = Pop
    /\ Did("step")
    /\ UNCHANGED <<session, set_radius_enabled, measurements, interface,
                   measurement_radius, ifaceStatus, upserted, counters>>

\* ------------------------------------------------------ the interface

\* The adapter ends a scan: status() no longer reports IFACE_SCANNING.
IfaceScanEnds(f) ==
    /\ ifaceStatus[f] = "scanning"
    /\ ifaceStatus' = [ifaceStatus EXCEPT ![f] = "idle"]
    /\ Did("step")
    /\ UNCHANGED <<session, buttons, measurements, interface, enabled_scans,
                   measurement_radius, stack, upserted, counters>>

ResultLists ==
    UNION {[1..n -> RawSsids \X Dbms] : n \in 0..MaxAps}

Next ==
    \/ \E choice \in {NoInterface} \cup Ifaces : SelectInterface(choice)
    \/ \E file_path \in {NoMap} \cup MapFiles : LoadMap(file_path)
    \/ \E ok \in BOOLEAN, radius \in RadiusChoices : SetMeasurementRadius(ok, radius)
    \/ \E pos \in Points, button \in Buttons, ok \in BOOLEAN,
          distance10 \in DistanceChoices : RecordClick(pos, button, ok, distance10)
    \/ ToggleScan
    \/ \E ssid \in Ssids, ok \in BOOLEAN : GenerateHeatmap(ssid, ok)
    \/ ProcessEventsReturn
    \/ TriggerScan
    \/ \E results \in ResultLists : CollectPass(results)
    \/ CompleteScan
    \/ FinishScan
    \/ \E f \in Ifaces : IfaceScanEnds(f)

Spec == Init /\ [][Next]_vars

\* ------------------------------------- scans with several readings a pass

\* scan_results() lists of up to MaxReadings readings, repeated names
\* included.
PassResultLists ==
    UNION {[1..n -> RawSsids \X Dbms] : n \in 0..MaxReadings}

\* The window after a first map was loaded and calibrated on (0, 0), (3, 4)
\* with the default distance, before an interface is selected.
PassInit ==
    /\ map_image_path = 1
    /\ measurements = <<>>
    /\ interface = NoInterface
    /\ enabled_scans = TRUE
    /\ calibration_points = <<<<0, 0>>, <<3, 4>>>>
    /\ pixels_per_meter = PixelsPerMeter(<<<<0, 0>>, <<3, 4>>>>, DefaultDistance10)
    /\ measurement_radius = DefaultRadius * 10
    /\ is_calibrating = FALSE
    /\ scan_button_enabled = TRUE
    /\ set_radius_enabled = TRUE
    /\ generate_enabled = FALSE
    /\ stack = <<>>
    /\ ifaceStatus = [f \in Ifaces |-> "idle"]
    /\ lastOp = "handler"
    /\ heatmap = NoHeatmap
    /\ confirmed = TRUE
    /\ upserted = [k \in Keys |-> <<>>]
    /\ nScans = 0
    /\ nLoads = 1

\* Interface selection, clicks and the steps of the scans they start.
PassNext ==
    \/ \E choice \in {NoInterface} \cup Ifaces : SelectInterface(choice)
    \/ \E pos \in Points, button \in Buttons, ok \in BOOLEAN,
          distance10 \in DistanceChoices : RecordClick(pos, button, ok, distance10)
    \/ ProcessEventsReturn
    \/ TriggerScan
    \/ \E results \in PassResultLists : CollectPass(results)
    \/ CompleteScan
    \/ FinishScan
    \/ \E f \in Ifaces : IfaceScanEnds(f)

PassSpec == PassInit /\ [][PassNext]_vars

\* ------------------------------------------------- scans that must end

\* The steps perform_scan takes by itself once it was called.
ScanSteps ==
    \/ ProcessEventsReturn
    \/ TriggerScan
    \/ \E results \in PassResultLists : CollectPass(results)
    \/ CompleteScan
    \/ FinishScan

\* perform_scan runs on the one GUI thread and goes on whenever it can:
\* weak fairness of its own steps.  A poll of wait_while_interface_scanning
\* that finds IFACE_SCANNING sleeps and asks again (lines 252-253), which
\* changes nothing: it is a stuttering step.  Nothing makes the adapter
\* leave IFACE_SCANNING, so IfaceScanEnds is not fair.
ScanFairSpec == PassSpec /\ WF_vars(ScanSteps)

\* ------------------------------------------------------------ properties

Frames == {stack[n] : n \in DOMAIN stack}
KeyOf(m) == <<<<m[1], m[2]>>, m[3]>>
StoredKeys == {KeyOf(measurements[n]) : n \in DOMAIN measurements}
StoredValues(k) ==
    {measurements[n][4] : n \in {h \in DOMAIN measurements : KeyOf(measurements[h]) = k}}
Averaged(f) == {f.averaged_signals[n] : n \in DOMAIN f.averaged_signals}

\* C1: when the averages of a scan have been computed, the value of every
\* network name is the power-domain mean of its per-pass watt values over
\* all the passes in which it appeared.
C1_AveragesAcrossAllPasses ==
    \A f \in Frames :
        f.pc = "wait243" =>
            \A a \in Averaged(f) :
                a[2] = DbmOf(f.seen[a[1]][1], f.seen[a[1]][2])

\* C2: when the measurements of a scan have been recorded, every network
\* name that appeared in at least one pass has an averaged value and a
\* measurement at the scanned location.
C2_EverySeenNetworkReported ==
    \A f \in Frames :
        f.pc = "wait243" =>
            \A ssid \in Ssids :
                f.seen[ssid][2] > 0 =>
                    /\ ssid \in DictKeys(f.averaged_signals)
                    /\ <<f.pos, ssid>> \in StoredKeys

\* C3: the measurement list never holds two measurements with the same
\* (x, y, network name).
C3_UniqueKeys ==
    \A m, n \in DOMAIN measurements :
        KeyOf(measurements[m]) = KeyOf(measurements[n]) => m = n

\* C3 witness: a key was upserted a second time, with a weaker value.
C3_WeakerUpsertSeen ==
    \E k \in Keys :
        /\ Len(upserted[k]) = 2
        /\ upserted[k][2] < upserted[k][1]
        /\ k \in StoredKeys

\* C4: the stored value of a key is the maximum of the values upserted for
\* it, and a key never upserted is not stored.
C4_StoredIsMaxUpserted ==
    \A k \in Keys :
        IF upserted[k] = <<>>
        THEN k \notin StoredKeys
        ELSE StoredValues(k) = {MaxSeq(upserted[k])}

\* C4 witness: a key was upserted a second time, with a stronger value,
\* which is now the stored one.
C4_StrongerUpsertSeen ==
    \E k \in Keys :
        /\ Len(upserted[k]) = 2
        /\ upserted[k][2] > upserted[k][1]
        /\ StoredValues(k) = {upserted[k][2]}

\* C5: right after load_map accepts a file, the measurement list is empty.
C5_LoadMapDiscardsMeasurements ==
    lastOp = "load_map" => measurements = <<>>

\* C6: only the completion step of a scan changes the measurement list, and
\* no step removes a stored key.
C6_StoreFrame ==
    [][/\ lastOp' # "scan_complete" => measurements' = measurements
       /\ StoredKeys \subseteq StoredKeys']_vars

\* C6 witness: a handler other than a scan's completion has run while
\* measurements were stored.
C6_HandlerRanWithStore ==
    lastOp = "handler" /\ measurements # <<>>

\* C7: pixels_per_meter is defined only if exactly two calibration points
\* are recorded and a distance was confirmed for the loaded map.
C7_ScaleOnlyWhenCalibrated ==
    pixels_per_meter # NoScale =>
        Len(calibration_points) = 2 /\ confirmed

\* C8: in the calibrated state pixels_per_meter is strictly positive.
C8_CalibratedScalePositive ==
    (map_image_path # NoMap /\ ~is_calibrating /\ confirmed) =>
        IF pixels_per_meter = NoScale THEN FALSE ELSE pixels_per_meter[1] > 0

\* C9: the list of calibration points never holds more than two entries.
C9_AtMostTwoCalibrationPoints ==
    Len(calibration_points) <= 2

\* C10: a scan request with no interface selected starts no scan and
\* leaves the measurement list and enabled_scans as they were; no scan
\* runs while no interface is selected.
C10_NoInterfaceFailsFast ==
    [][/\ lastOp' = "scan_no_interface" =>
            /\ interface = NoInterface
            /\ stack' = stack
            /\ ifaceStatus' = ifaceStatus
            /\ measurements' = measurements
            /\ enabled_scans' = enabled_scans
       /\ interface' = NoInterface => stack' = <<>>]_vars

\* C10 witness: a scan was requested with no interface selected.
C10_ScanRequestedWithoutInterface ==
    lastOp = "scan_no_interface" /\ enabled_scans

\* C11: scans are serialized: no perform_scan starts while another one has
\* not returned.
C11_ScansSerialized ==
    Len(stack) <= 1

C13_OutputIsNegatedRaw ==
    heatmap.outcome = "plotted" =>
        /\ DOMAIN heatmap.Z = DOMAIN heatmap.Z_raw
        /\ \A i \in DOMAIN heatmap.Z_raw : heatmap.Z[i] + heatmap.Z_raw[i] = 0

C13_MixedSignFieldPlotted ==
    /\ heatmap.outcome = "plotted"
    /\ \E i, j \in DOMAIN heatmap.Z_raw :
           /\ heatmap.Z_raw[i] < 0 /\ heatmap.Z[i] > 0
           /\ heatmap.Z_raw[j] > 0 /\ heatmap.Z[j] < 0

\* C15: within one pass the value kept for a network name is its strongest
\* reading of that pass, in whatever order the readings arrive.
C15_StrongestReadingKept ==
    \A n \in DOMAIN stack :
        LET frame == stack[n]
        IN  \A j \in DOMAIN frame.access_points :
                LET ssid == frame.access_points[j][1]
                    readings == {Watts(frame.access_points[k][2]) :
                                    k \in {h \in DOMAIN frame.access_points :
                                              frame.access_points[h][1] = ssid}}
                IN  /\ ssid \in DictKeys(frame.ssid_signals_scan)
                    /\ \A w \in readings :
                           w <= MaxSeq(DictGet(frame.ssid_signals_scan, ssid))

\* C16: every scan that was started returns and switches scanning back on,
\* whatever the interface reports in the meantime.
C16_AcceptedScanFinishes ==
    (stack # <<>>) ~> (stack = <<>> /\ enabled_scans)

\* C17: the lattice of a heatmap has ceil(width / gridStep) columns and
\* ceil(height / gridStep) rows, at least one of each, for the grid step
\* measurement_radius * pixels_per_meter of every completed calibration.
C17_LatticeSize ==
    heatmap.outcome \in {"plotted", "raised"} =>
        LET size == ImageSize(map_image_path)
            num == measurement_radius * pixels_per_meter[1]
            den == 10 * pixels_per_meter[2]
        IN  /\ heatmap.cols >= 1
            /\ heatmap.rows >= 1
            /\ (heatmap.cols - 1) * num < size[1] * den
            /\ size[1] * den <= heatmap.cols * num
            /\ (heatmap.rows - 1) * num < size[2] * den
            /\ size[2] * den <= heatmap.rows * num

\* C18: a measurement is only added while a map is loaded, calibration is
\* over and pixels_per_meter comes from the calibration of that map; a click
\* while calibrating never starts a scan.
C18_MeasurementsOnlyWhenCalibrated ==
    [][/\ measurements' # measurements =>
              /\ map_image_path # NoMap
              /\ ~is_calibrating
              /\ confirmed
       /\ Len(stack') > Len(stack) => ~is_calibrating]_vars

\* C19: calibration never gets stuck: in every state in which a loaded map
\* is being calibrated, some clicks and dialog answers (at most MaxClicks),
\* without a new map, end the calibration.
C19_CalibrationNeverStuck ==
    (map_image_path # NoMap /\ is_calibrating)
        => CanCompleteWithin(calibration_points, MaxClicks)

====
